---- MODULE Spec2Model ----
(***************************************************************************)
(* The XDCC protocol client of subsplease-dl (src/src/subsplease_dl/xdcc.py) *)
(* as a state machine: the two locks of class XDCC, the file, stream and   *)
(* DCC connection it owns, the background event thread that runs the       *)
(* handlers (on_welcome, on_join, on_ctcp, on_dccmsg, on_dcc_disconnect)   *)
(* and the caller threads inside XDCC.send, one step per blocking point.   *)
(* Time is abstract: a lock acquire with a finite timeout may give up at   *)
(* any moment at which the lock is held by somebody else.                  *)
(* The catalog layer above it (src/subsplease.py) has three specifications *)
(* of its own: ListSpec for list_files and its cache file, SearchSpec for  *)
(* SubsPleaseXDCC.search on one catalog, FanSpec for search_all over BOTS. *)
(***************************************************************************)
EXTENDS Integers, Sequences, FiniteSets, TLC

\* ------------------------------------------------------------------ bounds
MaxCalls == 2        \* calls of send() over the life of one client
MaxSize == 2         \* the size a well-formed handshake declares
MaxChunk == 1        \* largest block of one DCC data event
MaxFiles == 2        \* handshakes the client accepts (XDCCFile objects it makes)
MaxTimeout == 5      \* the finite timeout a caller may pass to send
MaxLines == 2        \* entry lines in the listing a bot serves
MaxListTitles == 2   \* distinct titles in such a listing
LineBytes == 1024    \* bytes of one line of a listing
MaxListCalls == 2    \* calls of list_files over the life of one cache file
ScoreOne == 1        \* the similarity 1.0, similarities being 0..ScoreOne
MaxSearches == 2     \* searches on the files of one call of list_files

\* --------------------------------------------------------- program constants
NoTimeout == -1      \* send(timeout=-1): wait for the download lock forever
DAY == 86400         \* list_files: the seconds a cache file stays fresh
MinCacheSize == 4096 \* list_files: 0x1000, the bytes a cache file must have
HeaderLines == 4     \* list_files: data.splitlines()[4:-2]
FooterLines == 2
Cap == 8             \* search: get_close_matches(..., n=8, ...)
NBots == 5           \* len(BOTS)

Calls == 1..MaxCalls
Timeouts == {NoTimeout, MaxTimeout}
Kinds == {"ok", "badaddr", "badsize", "badfields", "other"}
\* the exception that ended the event thread
Dead == {"dead_fields", "dead_size", "dead_write", "dead_release"}

VARIABLES
    channel,          \* XDCC.channel: TRUE iff a channel is configured
    avalible_lock,    \* XDCC.avalible_lock: TRUE iff locked
    dl_lock,          \* XDCC.dl_lock: TRUE iff locked
    stream_,          \* XDCC.__stream: 0 (None) or a byte sink
    file,             \* XDCC.file: the current XDCCFile (id 0: attribute not set)
    nfiles,           \* XDCCFile objects made so far
    dcc_connection,   \* XDCC.dcc_connection (id 0: attribute not set)
    opened,           \* the byte sinks on_ctcp has opened itself
    closed,           \* the byte sinks that have been closed (no caller of the
                      \* repository closes a stream it passed while the client lives)
    connected,        \* XDCC.connected
    irc,              \* the transport connection: "new", "open", "welcomed", "closed"
    loop,             \* the thread of _run_until_disconnect: "none", "running", "exited", or in Dead
    pc,               \* per call of send: the statement it is at
    arg,              \* per call of send: its arguments
    acquired,         \* per call of send: what avalible_lock.acquire(timeout=60) returned
    result,           \* per call of send: how it ended
    retFile,          \* per call of send: the id of the XDCCFile it returned
    sent,             \* the control messages sent to the peer (by call)
    \* SubsPleaseXDCC.list_files and its cache (src/subsplease.py)
    body,             \* the entry lines of the listing the bot serves
    cache,            \* the cache file of the bot's listing
    lf,               \* the call of list_files: where it is and what it returned
    nlist,            \* calls of list_files made so far
    ctl,              \* "list" control messages sent so far
    \* SubsPleaseXDCC.search
    score,            \* per title: its similarity to the title searched for
    found,            \* per cutoff: what search returned
    \* search_all
    task,             \* per bot: the state of its search in the thread pool
    consumer,         \* the generator search_all: where it is in BOTS, how it ended
    delivered         \* the bots whose files search_all has yielded

xdccVars == <<channel, avalible_lock, dl_lock, stream_, file, nfiles, dcc_connection, opened,
              closed, connected, irc, loop, pc, arg, acquired, result, retFile, sent>>
listVars == <<body, cache, lf, nlist, ctl>>
searchVars == <<score, found>>
fanVars == <<task, consumer, delivered>>
catalogVars == <<listVars, searchVars, fanVars>>

vars == <<xdccVars, catalogVars>>

clientVars == <<channel, avalible_lock, dl_lock, stream_, file, nfiles, dcc_connection,
                opened, closed>>
transportVars == <<connected, irc, loop>>
callVars == <<pc, arg, acquired, result, retFile, sent>>

\* ------------------------------------------------------------------ helpers
\* XDCC.file before any handshake has set it
NoFile == [id |-> 0, pack |-> 0, size |-> 0, n |-> 0, stream |-> 0]

\* XDCC.dcc_connection before any dcc_connect
NoConnection == [id |-> 0, open |-> FALSE]

\* a completion test that needs one byte more than the declared size
DownloadComplete_strict(f) == f.n > f.size

\* XDCCFile._download_complete
DownloadComplete(f) == f.n >= f.size

\* byte sinks: call c passes stream c; the file on_ctcp opens for its i-th
\* XDCCFile is stream MaxCalls + i
CallerStream(c) == c

OwnStream(i) == MaxCalls + i

ClientOwned(s) == s > MaxCalls

\* on_ctcp: self.__stream is None or self.__stream.closed
NeedsOwnStream == stream_ = 0 \/ stream_ \in closed

\* a test of a lock that never finds it held
Locked_never(lock) == FALSE

\* threading.Lock.locked, as on_ctcp asks it of dl_lock
Locked(lock) == lock

\* threading.Lock.release by the event thread: a RuntimeError on an unlocked lock
ReleasedLoop(lock) == IF lock THEN loop ELSE "dead_release"

\* ------------------------------------------- the catalog layer: its values
\* A line of a listing is the number of the title it names when it matches
\* LISTFILE_RE, and 0 when it does not (a header, a footer, a broken line).
\* Titles are numbered in the order of their strings.
NTitles == Cap + 1
Titles == 1..NTitles
Cutoffs == 0..(ScoreOne + 1)
\* search(title, cutoff=0.6), on the scale 0..ScoreOne
DefaultCutoff == (ScoreOne + 1) \div 2
Bots == 1..NBots
Ages == {0, DAY - 1, DAY, DAY + 1, 25 * 3600}

\* the entry lines a bot may serve
Bodies == UNION {[1..n -> 0..MaxListTitles] : n \in 0..MaxLines}

\* the whole listing: four header lines, the entries, two footer lines
Listing(b) == [i \in 1..HeaderLines |-> 0] \o b \o [i \in 1..FooterLines |-> 0]

\* no cache file
NoRecord == [exists |-> FALSE, age |-> 0, lines |-> 0, cut |-> 0, live |-> FALSE]

\* the cache file right after open(filename, "wb+")
Truncated == [exists |-> TRUE, age |-> 0, lines |-> 0, cut |-> 0, live |-> TRUE]

\* the cache files an earlier run may have left: the first lines of the
\* listing, the last of them possibly short of its final byte
Records(b) ==
    {NoRecord} \cup
    {[exists |-> TRUE, age |-> a, lines |-> k, cut |-> d, live |-> FALSE] :
        a \in Ages, k \in 0..Len(Listing(b)), d \in 0..1}

\* os.path.getsize of the cache file
Size(rec) == IF rec.lines = 0 THEN 0 ELSE rec.lines * LineBytes - rec.cut

\* a freshness test that refuses a file exactly one day old
CacheValid_younger(rec) == rec.exists /\ rec.age < DAY /\ Size(rec) >= MinCacheSize

\* list_files: the test that lets the cache file be served
CacheValid(rec) == rec.exists /\ rec.age <= DAY /\ Size(rec) >= MinCacheSize

\* file.read().splitlines() of the cache file
Data(rec) == SubSeq(Listing(body), 1, rec.lines)

\* data.splitlines()[4:-2]
Strip(d) == SubSeq(d, HeaderLines + 1, Len(d) - FooterLines)

\* ListFile(line): without a match the object has no attribute but raw
ListFile(line) == [parsed |-> line > 0, title |-> line]

\* [ListFile(i, self.bot) for i in data.splitlines()[4:-2]]
Parse(d) == [i \in 1..Len(Strip(d)) |-> ListFile(Strip(d)[i])]

\* the warnings ListFile gives for a list of files
Warnings(files) == Cardinality({i \in 1..Len(files) : ~files[i].parsed})

\* no call of list_files yet
NoListCall == [pc |-> "idle", hit |-> FALSE, age |-> 0, files |-> <<>>]

\* an order of the matches by title alone
Better_byTitle(t, u) == t > u

\* heapq.nlargest on (score, title) pairs: t comes before u
Better(t, u) == score[t] > score[u] \/ (score[t] = score[u] /\ t > u)

\* heapq.nlargest(n, ...): the n best of S
NLargest(n, S) == {t \in S : Cardinality({u \in S : Better(u, t)}) < n}

\* difflib.get_close_matches(title, titles, n=8, cutoff=c)
CloseMatches(titles, c) == NLargest(Cap, {t \in titles : score[t] >= c})

\* no search at this cutoff yet
NotSearched == [status |-> "none", files |-> <<>>]

\* SubsPleaseXDCC.search on the files list_files returned
Search(files, c) ==
    IF \E i \in 1..Len(files) : ~files[i].parsed
      THEN [status |-> "AttributeError", files |-> <<>>]
      ELSE IF c \notin 0..ScoreOne
        THEN [status |-> "ValueError", files |-> <<>>]
        ELSE LET matches == CloseMatches({files[i].title : i \in 1..Len(files)}, c)
                 Matched(f) == f.title \in matches
             IN  [status |-> "ok", files |-> SelectSeq(files, Matched)]

\* the catalog layer at rest
ListIdle ==
    /\ body = <<>>
    /\ cache = NoRecord
    /\ lf = NoListCall
    /\ nlist = 0
    /\ ctl = 0

SearchIdle ==
    /\ score = [t \in Titles |-> 0]
    /\ found = [c \in Cutoffs |-> NotSearched]

FanIdle ==
    /\ task = [b \in Bots |-> "pending"]
    /\ consumer = [pos |-> 1, state |-> "iterating"]
    /\ delivered = {}

\* ---------------------------------------------------------------------- Init
\* XDCC.__init__
ClientInit ==
    /\ channel \in BOOLEAN
    /\ avalible_lock = TRUE
    /\ dl_lock = FALSE
    /\ stream_ = 0
    /\ file = NoFile
    /\ nfiles = 0
    /\ dcc_connection = NoConnection
    /\ opened = {}
    /\ closed = {}
    /\ connected = TRUE
    /\ irc = "new"
    /\ loop = "none"
    /\ pc = [c \in Calls |-> "idle"]
    /\ arg = [c \in Calls |-> [stream |-> 0, timeout |-> NoTimeout]]
    /\ acquired = [c \in Calls |-> FALSE]
    /\ result = [c \in Calls |-> "none"]
    /\ retFile = [c \in Calls |-> 0]
    /\ sent = {}

Init == ClientInit /\ ListIdle /\ SearchIdle /\ FanIdle

\* ------------------------------------------------- lifecycle: start and close
\* XDCC.start: connect, then run the event loop in a thread
start ==
    /\ loop = "none"
    /\ loop' = "running"
    /\ irc' = "open"
    /\ UNCHANGED connected
    /\ UNCHANGED <<clientVars, callVars>>
    /\ UNCHANGED catalogVars

\* XDCC.close
close ==
    /\ loop # "none"
    /\ connected \/ irc \in {"open", "welcomed"}
    /\ connected' = FALSE
    /\ irc' = IF irc \in {"open", "welcomed"} THEN "closed" ELSE irc
    /\ UNCHANGED loop
    /\ UNCHANGED <<clientVars, callVars>>
    /\ UNCHANGED catalogVars

\* XDCC._run_until_disconnect: the loop test fails once connected is False
run_until_disconnect ==
    /\ loop = "running"
    /\ ~connected
    /\ loop' = "exited"
    /\ UNCHANGED <<connected, irc>>
    /\ UNCHANGED <<clientVars, callVars>>
    /\ UNCHANGED catalogVars

\* ------------------------------------------- handlers run by the event thread
\* the handlers run inside reactor.process_once, so only while the loop runs;
\* an exception a handler raises ends the thread (loop \in Dead)

\* XDCC.on_welcome
on_welcome ==
    /\ loop = "running"
    /\ irc = "open"
    /\ irc' = "welcomed"
    /\ IF channel
         THEN UNCHANGED <<avalible_lock, loop>>
         ELSE /\ avalible_lock' = FALSE
              /\ loop' = ReleasedLoop(avalible_lock)
    /\ UNCHANGED <<channel, dl_lock, stream_, file, nfiles, dcc_connection, opened, closed>>
    /\ UNCHANGED connected
    /\ UNCHANGED callVars
    /\ UNCHANGED catalogVars

\* XDCC.on_join: runs for every join event of the channel
on_join ==
    /\ loop = "running"
    /\ irc = "welcomed"
    /\ channel
    /\ avalible_lock' = FALSE
    /\ loop' = ReleasedLoop(avalible_lock)
    /\ UNCHANGED <<channel, dl_lock, stream_, file, nfiles, dcc_connection, opened, closed>>
    /\ UNCHANGED <<connected, irc>>
    /\ UNCHANGED callVars
    /\ UNCHANGED catalogVars

\* XDCC.on_ctcp for a CTCP event about pack p of kind k declaring size sz:
\*   "other"     not a DCC event, or a DCC command other than SEND
\*   "badfields" a DCC payload that does not split into five fields
\*   "badsize"   a DCC SEND whose size is not a number
\*   "badaddr"   a DCC SEND whose address or port cannot be connected to
\*   "ok"        a well-formed DCC SEND
on_ctcp(p, k, sz) ==
    /\ loop = "running"
    /\ irc = "welcomed"
    /\ nfiles < MaxFiles
    /\ LET s == IF NeedsOwnStream THEN OwnStream(nfiles + 1) ELSE stream_
           o == IF NeedsOwnStream THEN opened \cup {s} ELSE opened
           f == [id |-> nfiles + 1, pack |-> p, size |-> sz, n |-> 0, stream |-> s]
       IN  CASE k = "other" ->
                  UNCHANGED <<dl_lock, file, nfiles, dcc_connection, opened, loop>>
             [] k = "badfields" ->
                  /\ loop' = "dead_fields"
                  /\ UNCHANGED <<dl_lock, file, nfiles, dcc_connection, opened>>
             [] k \in {"ok", "badaddr", "badsize"} /\ Locked(dl_lock) ->
                  UNCHANGED <<dl_lock, file, nfiles, dcc_connection, opened, loop>>
             [] k = "badsize" /\ ~Locked(dl_lock) ->
                  /\ dl_lock' = TRUE
                  /\ opened' = o
                  /\ loop' = "dead_size"
                  /\ UNCHANGED <<file, nfiles, dcc_connection>>
             [] k = "badaddr" /\ ~Locked(dl_lock) ->
                  /\ opened' = o
                  /\ file' = f
                  /\ nfiles' = nfiles + 1
                  /\ dl_lock' = FALSE
                  /\ UNCHANGED <<dcc_connection, loop>>
             [] k = "ok" /\ ~Locked(dl_lock) ->
                  /\ opened' = o
                  /\ file' = f
                  /\ nfiles' = nfiles + 1
                  /\ dcc_connection' = [id |-> nfiles + 1, open |-> TRUE]
                  /\ dl_lock' = TRUE
                  /\ UNCHANGED loop
    /\ UNCHANGED <<channel, avalible_lock, stream_, closed>>
    /\ UNCHANGED <<connected, irc>>
    /\ UNCHANGED callVars
    /\ UNCHANGED catalogVars

\* the CTCP events the peer can send: about a pack somebody asked for, or about none
Handshake ==
    \E p \in sent \cup {0}, k \in Kinds : on_ctcp(p, k, MaxSize)

\* XDCC.on_dccmsg for a block of b bytes, with the on_dcc_disconnect that
\* dcc_connection.disconnect() runs at once when the download is complete
on_dccmsg(b) ==
    /\ loop = "running"
    /\ dcc_connection.open
    /\ IF file.id = 0 \/ file.stream \in closed
         THEN /\ loop' = "dead_write"
              /\ UNCHANGED <<dl_lock, file, dcc_connection>>
         ELSE LET f == [file EXCEPT !.n = @ + b]
              IN  /\ file' = f
                  /\ IF DownloadComplete(f)
                       THEN /\ dcc_connection' = [dcc_connection EXCEPT !.open = FALSE]
                            /\ dl_lock' = FALSE
                            /\ loop' = ReleasedLoop(dl_lock)
                       ELSE UNCHANGED <<dl_lock, dcc_connection, loop>>
    /\ UNCHANGED <<channel, avalible_lock, stream_, nfiles, opened, closed>>
    /\ UNCHANGED <<connected, irc>>
    /\ UNCHANGED callVars
    /\ UNCHANGED catalogVars

DccData == \E b \in 1..MaxChunk : on_dccmsg(b)

\* XDCC.on_dcc_disconnect when the peer closes the DCC connection
on_dcc_disconnect ==
    /\ loop = "running"
    /\ dcc_connection.open
    /\ dcc_connection' = [dcc_connection EXCEPT !.open = FALSE]
    /\ dl_lock' = FALSE
    /\ loop' = ReleasedLoop(dl_lock)
    /\ UNCHANGED <<channel, avalible_lock, stream_, file, nfiles, opened, closed>>
    /\ UNCHANGED <<connected, irc>>
    /\ UNCHANGED callVars
    /\ UNCHANGED catalogVars

\* ------------------------------------------------ XDCC.send, step by step
\* a caller enters send(pack, stream, timeout) on a started client;
\* own = TRUE iff it passes a stream
Call(c, own, t) ==
    /\ pc[c] = "idle"
    /\ loop # "none"
    /\ \A d \in Calls : d < c => pc[d] # "idle"
    /\ pc' = [pc EXCEPT ![c] = "s_avail"]
    /\ arg' = [arg EXCEPT ![c] = [stream |-> IF own THEN CallerStream(c) ELSE 0,
                                  timeout |-> t]]
    /\ UNCHANGED <<acquired, result, retFile, sent>>
    /\ UNCHANGED <<clientVars, transportVars>>
    /\ UNCHANGED catalogVars

\* self.avalible_lock.acquire(timeout=60): the lock is taken, or the wait gives
\* up while the lock is held; send goes on either way
send_avalible(c) ==
    /\ pc[c] = "s_avail"
    /\ acquired' = [acquired EXCEPT ![c] = ~avalible_lock]
    /\ avalible_lock' = TRUE
    /\ pc' = [pc EXCEPT ![c] = "s_ctcp"]
    /\ UNCHANGED <<channel, dl_lock, stream_, file, nfiles, dcc_connection, opened, closed>>
    /\ UNCHANGED <<arg, result, retFile, sent>>
    /\ UNCHANGED transportVars
    /\ UNCHANGED catalogVars

\* self.__stream = stream; self.connection.ctcp("xdcc", self.bot, "send " + str(pack)),
\* which raises when the transport is not connected; then time.sleep(3), which
\* changes no state: what can happen during the pause can happen after it
send_ctcp(c) ==
    /\ pc[c] = "s_ctcp"
    /\ stream_' = arg[c].stream
    /\ IF irc \in {"open", "welcomed"}
         THEN /\ sent' = sent \cup {c}
              /\ pc' = [pc EXCEPT ![c] = "s_dl"]
              /\ UNCHANGED result
         ELSE /\ result' = [result EXCEPT ![c] = "notconnected"]
              /\ pc' = [pc EXCEPT ![c] = "done"]
              /\ UNCHANGED sent
    /\ UNCHANGED <<channel, avalible_lock, dl_lock, file, nfiles, dcc_connection, opened, closed>>
    /\ UNCHANGED <<arg, acquired, retFile>>
    /\ UNCHANGED transportVars
    /\ UNCHANGED catalogVars

\* success = self.dl_lock.acquire(timeout=timeout); raise if not success
send_dl(c) ==
    /\ pc[c] = "s_dl"
    /\ IF ~dl_lock
         THEN /\ dl_lock' = TRUE
              /\ pc' = [pc EXCEPT ![c] = "s_release"]
              /\ UNCHANGED result
         ELSE /\ arg[c].timeout # NoTimeout
              /\ result' = [result EXCEPT ![c] = "timeout"]
              /\ pc' = [pc EXCEPT ![c] = "done"]
              /\ UNCHANGED dl_lock
    /\ UNCHANGED <<channel, avalible_lock, stream_, file, nfiles, dcc_connection, opened, closed>>
    /\ UNCHANGED <<arg, acquired, retFile, sent>>
    /\ UNCHANGED transportVars
    /\ UNCHANGED catalogVars

\* self.dl_lock.release()
send_release(c) ==
    /\ pc[c] = "s_release"
    /\ dl_lock' = FALSE
    /\ IF dl_lock
         THEN /\ pc' = [pc EXCEPT ![c] = "s_return"]
              /\ UNCHANGED result
         ELSE /\ result' = [result EXCEPT ![c] = "error"]
              /\ pc' = [pc EXCEPT ![c] = "done"]
    /\ UNCHANGED <<channel, avalible_lock, stream_, file, nfiles, dcc_connection, opened, closed>>
    /\ UNCHANGED <<arg, acquired, retFile, sent>>
    /\ UNCHANGED transportVars
    /\ UNCHANGED catalogVars

\* return self.file: an AttributeError while no handshake has ever set it
send_return(c) ==
    /\ pc[c] = "s_return"
    /\ pc' = [pc EXCEPT ![c] = "done"]
    /\ result' = [result EXCEPT ![c] = IF file.id = 0 THEN "nofile" ELSE "file"]
    /\ retFile' = [retFile EXCEPT ![c] = file.id]
    /\ UNCHANGED <<arg, acquired, sent>>
    /\ UNCHANGED <<clientVars, transportVars>>
    /\ UNCHANGED catalogVars

\* one step of call c inside send
send(c) ==
    \/ send_avalible(c)
    \/ send_ctcp(c)
    \/ send_dl(c)
    \/ send_release(c)
    \/ send_return(c)

\* ------------------------------------------------------------ specification
Next ==
    \/ start
    \/ close
    \/ run_until_disconnect
    \/ on_welcome
    \/ on_join
    \/ Handshake
    \/ DccData
    \/ on_dcc_disconnect
    \/ \E c \in Calls, own \in BOOLEAN, t \in Timeouts : Call(c, own, t)
    \/ \E c \in Calls : send(c)

Spec == Init /\ [][Next]_vars

\* --------------------------------------- SubsPleaseXDCC.list_files and search
\* SubsPleaseXDCC.__init__ gives every client the channel "#subsplease"
XdccIdle == ClientInit /\ channel = TRUE

\* list_files up to the call of send: the cache file is tested (lf.age keeps
\* the age the test saw, time.time() - os.path.getmtime(filename)) and, when it
\* passes, read and parsed; when it does not, open(filename, "wb+") makes it
\* anew, empty, and the call goes into self.send("list", stream)
list_files_begin ==
    /\ lf.pc # "sending"
    /\ nlist < MaxListCalls
    /\ nlist' = nlist + 1
    /\ IF CacheValid(cache)
         THEN /\ lf' = [pc |-> "returned", hit |-> TRUE, age |-> cache.age,
                         files |-> Parse(Data(cache))]
              /\ UNCHANGED cache
         ELSE /\ lf' = [pc |-> "sending", hit |-> FALSE, age |-> cache.age, files |-> <<>>]
              /\ cache' = Truncated
    /\ found' = [c \in Cutoffs |-> NotSearched]
    /\ UNCHANGED <<body, ctl, score>>
    /\ UNCHANGED <<xdccVars, fanVars>>

\* the end of self.send("list", stream) and the rest of list_files. XDCC.send
\* ends in one of three ways (actions send_ctcp, send_dl, send_release and
\* send_return above):
\*   "notconnected" connection.ctcp raises, nothing was sent or written
\*   "nofile"       the message was sent and send raised with nothing written
\*   "file"         the message was sent and send returned, with the first k
\*                  lines of the listing in the stream, the last of them short
\*                  of d bytes: all of them after a full transfer, fewer when
\*                  the bot closed the DCC connection early or send returned
\*                  ahead of the transfer
\* after which stream.seek(0), stream.read() and the parse follow
list_files_send(o, k, d) ==
    /\ lf.pc = "sending"
    /\ ctl' = IF o = "notconnected" THEN ctl ELSE ctl + 1
    /\ IF o = "file"
         THEN LET rec == [cache EXCEPT !.age = 0, !.lines = k, !.cut = IF k = 0 THEN 0 ELSE d]
              IN  /\ cache' = rec
                  /\ lf' = [lf EXCEPT !.pc = "returned", !.files = Parse(Data(rec))]
         ELSE /\ k = 0
              /\ d = 0
              /\ lf' = [lf EXCEPT !.pc = "raised"]
              /\ UNCHANGED cache
    /\ UNCHANGED <<body, nlist, score, found>>
    /\ UNCHANGED <<xdccVars, fanVars>>

\* time passes: the cache file grows older
Tick ==
    /\ cache.exists
    /\ \E a \in Ages : a > cache.age /\ cache' = [cache EXCEPT !.age = a]
    /\ UNCHANGED <<body, lf, nlist, ctl, score, found>>
    /\ UNCHANGED <<xdccVars, fanVars>>

\* SubsPleaseXDCC.search after its call of list_files has returned
search_match(c) ==
    /\ lf.pc = "returned"
    /\ found[c] = NotSearched
    /\ Cardinality({d \in Cutoffs : found[d] # NotSearched}) < MaxSearches
    /\ found' = [found EXCEPT ![c] = Search(lf.files, c)]
    /\ UNCHANGED <<body, cache, lf, nlist, ctl, score>>
    /\ UNCHANGED <<xdccVars, fanVars>>

\* a bot's listing, a cache file some earlier run left, and one similarity
\* per title of the listing
ListInit ==
    /\ XdccIdle
    /\ FanIdle
    /\ body \in Bodies
    /\ cache \in Records(body)
    /\ lf = NoListCall
    /\ nlist = 0
    /\ ctl = 0
    /\ score = [t \in Titles |-> IF t <= MaxListTitles THEN ScoreOne ELSE 0]
    /\ found = [c \in Cutoffs |-> NotSearched]

ListNext ==
    \/ list_files_begin
    \/ \E o \in {"file", "nofile", "notconnected"}, k \in 0..Len(Listing(body)), d \in 0..1 :
            list_files_send(o, k, d)
    \/ Tick
    \/ search_match(DefaultCutoff)

ListSpec == ListInit /\ [][ListNext]_vars

\* ------------------------------------------------ search, on a large catalog
\* a listing with one entry for each of Cap + 1 titles and a second entry for
\* the first of them
Catalog == [i \in 1..(NTitles + 1) |-> IF i <= NTitles THEN i ELSE 1]

\* list_files has fetched and returned the catalog; the title searched for
\* has any similarity to each title
SearchInit ==
    /\ XdccIdle
    /\ FanIdle
    /\ body = Catalog
    /\ cache = [Truncated EXCEPT !.lines = Len(Listing(Catalog))]
    /\ lf = [pc |-> "returned", hit |-> FALSE, age |-> 0, files |-> Parse(Listing(Catalog))]
    /\ nlist = 1
    /\ ctl = 1
    /\ score \in [Titles -> 0..ScoreOne]
    /\ found = [c \in Cutoffs |-> NotSearched]

SearchNext == \E c \in Cutoffs : search_match(c)

SearchSpec == SearchInit /\ [][SearchNext]_vars

\* ------------------------------------------------------------- search_all
\* ThreadPoolExecutor.map submits search(bot) for every bot of BOTS at once
\* (the pool has at least min(32, cpus + 4) >= NBots threads), and the
\* generator takes the results in the order of BOTS.

\* the module function search(bot, title, cutoff) in its pool thread: it
\* returns the bot's files, or raises what the client, list_files or
\* SubsPleaseXDCC.search raised
search(b, ok) ==
    /\ task[b] = "pending"
    /\ task' = [task EXCEPT ![b] = IF ok THEN "returned" ELSE "raised"]
    /\ UNCHANGED <<consumer, delivered>>
    /\ UNCHANGED <<xdccVars, listVars, searchVars>>

\* one turn of the loop of search_all: the result of the next bot is waited
\* for; its files are yielded, or its exception is raised again out of the
\* generator, which ends it
search_all ==
    /\ consumer.state = "iterating"
    /\ task[consumer.pos] # "pending"
    /\ IF task[consumer.pos] = "returned"
         THEN /\ delivered' = delivered \cup {consumer.pos}
              /\ consumer' = IF consumer.pos = NBots
                                THEN [consumer EXCEPT !.state = "finished"]
                                ELSE [consumer EXCEPT !.pos = @ + 1]
         ELSE /\ consumer' = [consumer EXCEPT !.state = "raised"]
              /\ UNCHANGED delivered
    /\ UNCHANGED task
    /\ UNCHANGED <<xdccVars, listVars, searchVars>>

FanInit == XdccIdle /\ ListIdle /\ SearchIdle /\ FanIdle

FanNext ==
    \/ \E b \in Bots, ok \in BOOLEAN : search(b, ok)
    \/ search_all

FanSpec == FanInit /\ [][FanNext]_vars

\* ------------------------------------------------- the state of a request
\* call c has sent its control message and has not returned
InFlight(c) == pc[c] \in {"s_dl", "s_release", "s_return"}

\* no call is inside send
AllReturned == \A c \in Calls : pc[c] \in {"idle", "done"}

\* the current XDCCFile answers call c
FileOf(c) == file.id # 0 /\ file.pack = c

\* the DCC connection of the current XDCCFile is open / has been closed
Transferring == dcc_connection.id = file.id /\ dcc_connection.open

TransferEnded == file.id # 0 /\ dcc_connection.id = file.id /\ ~dcc_connection.open

\* every DCC connection is opened and closed under dl_lock, so a new
\* dcc_connection never replaces one that is still open
LockDiscipline == dcc_connection.open => dl_lock /\ dcc_connection.id = file.id

\* ------------------------------------------------------------------ claims

\* C1: whenever a send call that acquired avalible_lock and got the handshake
\* of its pack has returned, by the file or by a timeout, and no call is
\* inside send, the client is available again (avalible_lock is free) or
\* closed, so that a following call can acquire it at once.
C1_ReturnRestoresAvailable ==
    (/\ AllReturned
     /\ \E c \in Calls : acquired[c] /\ FileOf(c) /\ result[c] \in {"file", "timeout"})
        => (~avalible_lock \/ ~connected)

\* C2: at most one request is outstanding: while a call that acquired
\* avalible_lock waits for the end of the transfer of its pack, no other call
\* has sent its control message and not yet returned.
C2_OneOutstandingRequest ==
    \A c, d \in Calls :
        (c # d /\ acquired[c] /\ pc[c] = "s_dl" /\ FileOf(c) /\ Transferring)
            => ~InFlight(d)

\* C3: a call never returns a file while its own request is still
\* transferring: when call c has returned the XDCCFile of its pack, the DCC
\* connection of that file has been closed.
C3_ReturnsOnlyWhenResolved ==
    \A c \in Calls :
        (result[c] = "file" /\ retFile[c] = file.id /\ FileOf(c)) => ~Transferring

\* C4: a call with a finite timeout that acquired avalible_lock and got no
\* response from the peer (no handshake was ever accepted, the client is
\* neither closed nor broken) ends with a timeout.
C4_NoResponseTimesOut ==
    \A c \in Calls :
        (/\ pc[c] = "done"
         /\ c \in sent
         /\ acquired[c]
         /\ arg[c].timeout # NoTimeout
         /\ nfiles = 0
         /\ connected
         /\ loop = "running") => result[c] = "timeout"

\* C5: when the DCC connection of call c's file closed before the byte counter
\* reached the declared size, the call ends as interrupted, not with the file.
C5_ShortTransferIsInterrupted ==
    \A c \in Calls :
        (/\ pc[c] = "done"
         /\ retFile[c] = file.id
         /\ FileOf(c)
         /\ TransferEnded
         /\ ~DownloadComplete(file)) => result[c] = "interrupted"

\* C6: a handshake is honoured (an XDCCFile made, a stream opened, dl_lock
\* taken by the event thread) only while some call has sent its control
\* message and has not returned.
C6_HandshakeOnlyWhenAwaiting ==
    [][(nfiles' # nfiles \/ opened' # opened) => \E c \in Calls : InFlight(c)]_vars

\* C7: a malformed handshake that arrives while a call awaits its handshake
\* does not end the event thread (with dl_lock left held), and the call it
\* answers fails: no call returns the XDCCFile of a handshake of its pack for
\* which no DCC connection was opened.
C7_MalformedHandshakeFailsRequest ==
    [][\A c \in Calls :
          /\ (acquired[c] /\ pc[c] = "s_dl" /\ loop = "running")
                => loop' \notin {"dead_size", "dead_fields"}
          /\ (pc[c] = "s_return" /\ result'[c] = "file" /\ FileOf(c))
                => dcc_connection.id = file.id]_vars

\* C8: once the client is closed and its event thread has ended, no call stays
\* blocked inside send: a call that waits for the end of the transfer of its
\* pack can take its next step.
C8_CloseUnblocksWaiters ==
    \A c \in Calls :
        (~connected /\ loop = "exited" /\ acquired[c] /\ FileOf(c) /\ pc[c] = "s_dl")
            => ENABLED send(c)

\* C9: a control message is sent only by a call that has acquired
\* avalible_lock.
C9_CtcpOnlyAfterAcquire ==
    \A c \in sent : acquired[c]

\* C10: a stream the client opened itself for a call that passed none is
\* closed once the transfer into it has ended and the call has returned, and
\* a stream a caller passed is never closed by the client.
C10_OwnStreamClosedOnce ==
    \A c \in Calls :
        /\ (pc[c] = "done" /\ FileOf(c) /\ file.stream \in opened /\ TransferEnded)
              => file.stream \in closed
        /\ CallerStream(c) \notin closed

\* avalible_lock has been released at least once: it is free, or a call took it
BecameAvailable == ~avalible_lock \/ \E c \in Calls : acquired[c]

\* C15: avalible_lock is released by the join event that follows the welcome
\* when the client has a channel, and by the welcome itself when it has none;
\* and no call sends its control message before that first release.
C15_AvailableAfterJoinOrWelcome ==
    [][/\ (avalible_lock /\ ~avalible_lock') =>
              IF channel THEN irc = "welcomed" /\ irc' = "welcomed"
                         ELSE irc = "open" /\ irc' = "welcomed"
       /\ (sent' # sent) => BecameAvailable]_vars

\* C16: a data block is received only on the open DCC connection of the
\* current file and is added to that file (file.n counts the bytes written to
\* the stream and the bytes counted, which _write advances together); the
\* step that brings the counter to the declared size closes the DCC
\* connection itself and frees dl_lock without ending the event thread, so
\* that no transfer stays open with a full counter and the waiting call can
\* go on; a step that leaves the counter short leaves the transfer open.
C16_CompleteTransferClosesItself ==
    [][/\ (file'.id = file.id /\ file'.n # file.n) =>
            /\ Transferring
            /\ file'.n > file.n
            /\ file' = [file EXCEPT !.n = file'.n]
            /\ IF file'.n >= file'.size
                 THEN ~Transferring' /\ TransferEnded' /\ ~dl_lock' /\ loop' = "running"
                 ELSE Transferring' /\ dl_lock'
       /\ Transferring' => file'.n < file'.size]_vars

\* a transfer has ended with a full counter and the call of its pack got the file
C16_Witness ==
    /\ TransferEnded
    /\ file.n >= file.size
    /\ \E c \in Calls : FileOf(c) /\ result[c] = "file" /\ retFile[c] = file.id

\* C17: when a call that acquired avalible_lock runs into its timeout while
\* the DCC connection of its pack is open, it has returned with that
\* connection closed and dl_lock free, so that no block is written to its
\* stream afterwards.
C17_TimeoutTearsDownTransfer ==
    [][\A c \in Calls :
          (/\ pc[c] = "s_dl"
           /\ acquired[c]
           /\ FileOf(c)
           /\ Transferring
           /\ result'[c] = "timeout") => (~Transferring' /\ ~dl_lock')]_vars

\* C18: while a transfer is in progress no step replaces the current file,
\* its stream, its declared size or the DCC connection, makes another file or
\* opens another stream; and the arrival of a well-formed handshake changes
\* nothing at all, the byte counter included.
C18_HandshakeIgnoredWhileTransferring ==
    [][Transferring =>
          /\ nfiles' = nfiles
          /\ opened' = opened
          /\ file' = [file EXCEPT !.n = file'.n]
          /\ dcc_connection'.id = dcc_connection.id
          /\ (\E p \in sent \cup {0} : on_ctcp(p, "ok", MaxSize)) => UNCHANGED vars]_vars

\* a transfer is in progress with a block already received, and a
\* well-formed handshake for a requested pack arrives
C18_Witness ==
    /\ Transferring
    /\ file.n > 0
    /\ ENABLED (\E p \in sent : on_ctcp(p, "ok", MaxSize))

\* C20: no lock is ever released while it is free: the event thread never ends
\* on the RuntimeError of such a release, and no call of send fails on the
\* release of dl_lock.
C20_NoReleaseOfFreeLock ==
    /\ loop # "dead_release"
    /\ \A c \in Calls : result[c] # "error"

\* C12: a call of list_files serves the cache file, sending no control
\* message and leaving the file as it is, exactly when the file exists, is at
\* most a day old and has at least 4096 bytes; in every other case (no file,
\* an older one, a shorter one) it goes into send("list"), and when that
\* returns the control message has been sent and what is parsed is what the
\* fetch has stored in the cache file.
C12_CacheServedExactlyWhenValid ==
    [][/\ (nlist' # nlist) =>
            IF cache.exists /\ cache.age <= DAY /\ Size(cache) >= MinCacheSize
              THEN /\ lf'.pc = "returned"
                   /\ lf'.hit
                   /\ ctl' = ctl
                   /\ cache' = cache
                   /\ lf'.files = Parse(Data(cache))
              ELSE /\ lf'.pc = "sending"
                   /\ ~lf'.hit
       /\ (lf.pc = "sending" /\ lf'.pc = "returned") =>
            /\ ctl' = ctl + 1
            /\ cache'.exists
            /\ cache'.live
            /\ ~lf'.hit
            /\ lf'.files = Parse(Data(cache'))]_vars

\* a cache file found exactly one day old and 4096 bytes long has been served
C12_Witness ==
    /\ lf.pc = "returned"
    /\ lf.hit
    /\ lf.age = DAY
    /\ Size(cache) = MinCacheSize

\* the entry lines of the listing that match LISTFILE_RE, in their order
ValidLines == LET Valid(t) == t > 0 IN SelectSeq(body, Valid)

\* C13: when list_files has returned from the whole listing of a bot that has
\* valid entry lines and exactly one line that does not match, it has
\* returned one file per valid line, in the order of the listing, with one
\* warning given, and no search on these files fails.
C13_MalformedLineSkipped ==
    (/\ lf.pc = "returned"
     /\ cache.lines = Len(Listing(body))
     /\ Len(ValidLines) > 0
     /\ Len(body) = Len(ValidLines) + 1) =>
        /\ lf.files = [i \in 1..Len(ValidLines) |-> ListFile(ValidLines[i])]
        /\ \A c \in Cutoffs : found[c].status # "AttributeError"

\* C19: a cache file that a live fetch of this run wrote and list_files then
\* serves holds the whole listing: a fetch that ended short of it leaves no
\* file that a later call serves.
C19_ServedRecordIsComplete ==
    (lf.pc = "returned" /\ lf.hit /\ cache.live) =>
        (cache.lines = Len(Listing(body)) /\ cache.cut = 0)

\* the files of a search result, as a set
Returned(r) == {r.files[i] : i \in 1..Len(r.files)}

\* C14: on the same files, a search at a higher cutoff returns a subset of
\* what a search at a lower cutoff returns, also when more than Cap titles
\* reach the cutoff.
C14_SearchMonotoneInCutoff ==
    \A c1, c2 \in Cutoffs :
        (c1 <= c2 /\ found[c1].status = "ok" /\ found[c2].status = "ok")
            => Returned(found[c2]) \subseteq Returned(found[c1])

\* two searches have returned, the lower cutoff reached by more than Cap
\* titles, the higher one by fewer titles but not by none
C14_Witness ==
    \E c1, c2 \in Cutoffs :
        /\ c1 < c2
        /\ found[c1].status = "ok"
        /\ found[c2].status = "ok"
        /\ Cardinality({t \in Titles : score[t] >= c1}) > Cap
        /\ Returned(found[c2]) # {}
        /\ Returned(found[c2]) # Returned(found[c1])

\* C11: once search_all has ended, whether it ran through BOTS or not, the
\* files of every bot whose search returned have been yielded, whatever
\* another bot's search raised.
C11_FailedBotDoesNotAbort ==
    \A b \in Bots :
        (consumer.state # "iterating" /\ task[b] = "returned") => b \in delivered

====
